---- MODULE Spec2Model ----
(***************************************************************************)
(* A model of congress_mcp.client.CongressClient: the request executor     *)
(* (get), the paginator (get_all, _extract_results), the bounded           *)
(* concurrent enricher (fetch_details_concurrent, enrich_list_response)    *)
(* and the client scope (__aenter__/__aexit__); and of                     *)
(* congress_mcp.middleware.EnumValidationMiddleware.on_call_tool.          *)
(*                                                                         *)
(* One caller session is modelled: it may acquire the client, makes one    *)
(* call and leaves the scope.  A get call advances at its suspension       *)
(* points: awaiting the HTTP response and awaiting asyncio.sleep.  The     *)
(* upstream is the environment: it answers every request with any          *)
(* response of a small set.  Delays are in milliseconds.                   *)
(***************************************************************************)
EXTENDS Integers, Sequences, FiniteSets, TLC

VARIABLES
    cfg,        \* Config (frozen dataclass): max_retries, retry_base_delay, max_limit, default_limit
    client,     \* CongressClient._client: "none" | "open" | "closed"
    op,         \* the caller's operation: name, phase, arguments and outcome; input is
                \* the list response as passed in, at_resume the tasks as they
                \* were when the caller's coroutine ran again
    call,       \* the get call of the caller's own coroutine
    tasks,      \* the tasks asyncio.gather runs for fetch_details_concurrent
    gather      \* the outer future of asyncio.gather: pending, result or first exception

vars == <<cfg, client, op, call, tasks, gather>>

----
\* Bounds of the model.

\* largest max_retries a configuration of the model has
MaxRetries == 3
\* largest max_retries of a configuration under which detail tasks run
MaxTaskRetries == 1
\* largest number of summary items in a list response, and of endpoints
\* passed to fetch_details_concurrent
MaxItems == 2
\* largest max_concurrent passed to the enricher
MaxConcurrent == 2
\* largest max_results the caller passes to get_all
MaxResults == 3
\* largest total count a page reports to get_all
MaxTotal == 4
\* largest number of errors in a pydantic ValidationError
MaxErrors == 2

\* Config.retry_base_delay (1.0 s) in milliseconds
RetryBaseDelayMs == 1000
\* Config.max_limit as configured in the model
MaxLimit == 2
\* Config.default_limit as configured in the model
DefaultLimit == 1

----
\* Python values.

\* {} : the empty dict
EmptyDict == <<>>

\* None is the empty sequence, a value v is <<v>>
None == <<>>
Some(v) == <<v>>
IsNone(o) == o = <<>>

\* d[k] = v on a copy of d
DictSet(d, k, v) == [x \in (DOMAIN d) \cup {k} |-> IF x = k THEN v ELSE d[x]]

\* {**a, **b}
DictMerge(a, b) == [x \in (DOMAIN a) \cup (DOMAIN b) |-> IF x \in DOMAIN b THEN b[x] ELSE a[x]]

\* tagged JSON values, where one key may hold values of several types
JDict(d) == [type |-> "dict", val |-> d]
JList(s) == [type |-> "list", val |-> s]
JStr(s) == [type |-> "str", val |-> s]

Min(a, b) == IF a <= b THEN a ELSE b

RECURSIVE Pow2(_)
Pow2(n) == IF n = 0 THEN 1 ELSE 2 * Pow2(n - 1)

----
\* float(retry_after): the header is a sequence of characters.

Digits == <<"0", "1", "2", "3", "4", "5", "6", "7", "8", "9">>
IsDigit(ch) == \E i \in 1..10 : Digits[i] = ch
DigitVal(ch) == (CHOOSE i \in 1..10 : Digits[i] = ch) - 1

RECURSIVE StripLeft(_)
StripLeft(s) == IF s # <<>> /\ Head(s) = " " THEN StripLeft(Tail(s)) ELSE s

RECURSIVE StripRight(_)
StripRight(s) ==
    IF s # <<>> /\ s[Len(s)] = " " THEN StripRight(SubSeq(s, 1, Len(s) - 1)) ELSE s

Strip(s) == StripRight(StripLeft(s))

HasSign(s) == s # <<>> /\ Head(s) \in {"-", "+"}
Unsigned(s) == IF HasSign(s) THEN Tail(s) ELSE s

AllDigits(s) == \A i \in 1..Len(s) : IsDigit(s[i])

\* index of the decimal point, 0 when there is none
DotAt(s) == IF \E i \in 1..Len(s) : s[i] = "." THEN CHOOSE i \in 1..Len(s) : s[i] = "." ELSE 0
IntPart(s) == IF DotAt(s) = 0 THEN s ELSE SubSeq(s, 1, DotAt(s) - 1)
FracPart(s) == IF DotAt(s) = 0 THEN <<>> ELSE SubSeq(s, DotAt(s) + 1, Len(s))

\* float() accepts [ws][sign]digits[.digits] and [ws][sign].digits (the forms over
\* the model's alphabet); anything else raises ValueError
FloatParses(h) ==
    LET u == Unsigned(Strip(h))
    IN  /\ AllDigits(IntPart(u))
        /\ AllDigits(FracPart(u))
        /\ Len(IntPart(u)) + Len(FracPart(u)) > 0

RECURSIVE DigitsValue(_)
DigitsValue(s) ==
    IF s = <<>> THEN 0 ELSE 10 * DigitsValue(SubSeq(s, 1, Len(s) - 1)) + DigitVal(s[Len(s)])

\* the first three fractional digits as thousandths
FracMillis(f) ==
    LET d(i) == IF i <= Len(f) THEN DigitVal(f[i]) ELSE 0
    IN  100 * d(1) + 10 * d(2) + d(3)

\* float(h) in milliseconds, for a header that parses
FloatMillis(h) ==
    LET s == Strip(h)
        u == Unsigned(s)
        m == 1000 * DigitsValue(IntPart(u)) + FracMillis(FracPart(u))
    IN  IF HasSign(s) /\ Head(s) = "-" THEN 0 - m ELSE m

----
\* The upstream: what one HTTP round trip can produce.

\* Retry-After header values the upstream sends with a 429
RetryAfterValues ==
    { <<"2">>, <<"0", ".", "5">>, <<"-", "1">>, <<"s", "o", "o", "n">>, <<>> }

\* statuses other than 200 and 429
ErrorStatuses == {201, 302, 400, 401, 403, 404, 500}

Response(kind, status, retry_after, body) ==
    [kind |-> kind, status_code |-> status, retry_after |-> retry_after, body |-> body]

\* httpx raised httpx.HTTPError instead of returning a response
TransportError == Response("transport_error", 0, None, EmptyDict)

\* a 200 response whose text is not JSON: response.json() raises
\* json.JSONDecodeError, a ValueError
Undecodable == Response("undecodable", 200, None, EmptyDict)

RateLimited == {Response("response", 429, ra, EmptyDict) :
                    ra \in {None} \cup {Some(h) : h \in RetryAfterValues}}

Failed == {Response("response", s, None, EmptyDict) : s \in ErrorStatuses}

\* 200 bodies of a list endpoint
ListBodies ==
    { [bills |-> <<>>],
      [bills |-> <<[number |-> "1"]>>, pagination |-> [count |-> 3]],
      [bills |-> <<[number |-> "1"]>>, pagination |-> EmptyDict] }

Ok(bodies) == {Response("response", 200, None, b) : b \in bodies}

----
\* CongressClient.get

NoOutcome == [kind |-> "pending", value |-> EmptyDict, exc |-> "none", status_code |-> 0]
Returned(v) == [kind |-> "return", value |-> v, exc |-> "none", status_code |-> 0]
Raised(e, s) == [kind |-> "raise", value |-> EmptyDict, exc |-> e, status_code |-> s]

NoCall ==
    [pc |-> "idle", endpoint |-> "", params |-> EmptyDict, limit |-> None, offset |-> 0,
     attempt |-> 0,
     requests |-> <<>>, responses |-> <<>>, sleeps |-> <<>>, outcome |-> NoOutcome]

\* query parameters whose limit is passed on as given
MergedParamsUnclamped(params, limit, offset) ==
    LET p0 == IF IsNone(params) THEN EmptyDict ELSE params[1]
        p1 == DictSet(p0, "api_key", "KEY")
        p2 == DictSet(p1, "format", "json")
        p3 == IF IsNone(limit) THEN p2 ELSE DictSet(p2, "limit", limit[1])
    IN  DictSet(p3, "offset", offset)

\* query parameters that leave out an offset of 0
MergedParamsOffsetIfNonzero(params, limit, offset) ==
    LET p0 == IF IsNone(params) THEN EmptyDict ELSE params[1]
        p1 == DictSet(p0, "api_key", "KEY")
        p2 == DictSet(p1, "format", "json")
        p3 == IF IsNone(limit) THEN p2 ELSE DictSet(p2, "limit", Min(limit[1], cfg.max_limit))
    IN  IF offset = 0 THEN p3 ELSE DictSet(p3, "offset", offset)

\* lines 78-84: the query parameters of every attempt
MergedParams(params, limit, offset) ==
    LET p0 == IF IsNone(params) THEN EmptyDict ELSE params[1]
        p1 == DictSet(p0, "api_key", "KEY")
        p2 == DictSet(p1, "format", "json")
        p3 == IF IsNone(limit) THEN p2 ELSE DictSet(p2, "limit", Min(limit[1], cfg.max_limit))
    IN  DictSet(p3, "offset", offset)

\* self._client.get(endpoint, params=params): one request goes upstream
SendAttempt(c) ==
    [c EXCEPT !.pc = "inflight",
              !.requests = Append(@, [endpoint |-> c.endpoint, params |-> c.params])]

\* a get that sends without looking at self._client
GetStartUnchecked(endpoint, params, limit, offset) ==
    SendAttempt([NoCall EXCEPT !.endpoint = endpoint,
                               !.params = MergedParams(params, limit, offset),
                               !.limit = limit, !.offset = offset])

\* lines 75-88: get up to its first suspension point
GetStart(endpoint, params, limit, offset) ==
    IF client = "none"
    THEN [NoCall EXCEPT !.pc = "done", !.endpoint = endpoint, !.limit = limit,
                        !.offset = offset, !.outcome = Raised("RuntimeError", 0)]
    ELSE SendAttempt([NoCall EXCEPT !.endpoint = endpoint,
                                    !.params = MergedParams(params, limit, offset),
                                    !.limit = limit, !.offset = offset])

\* a get that writes api_key, format, limit and offset into the mapping it was
\* given (params = params or {})
AfterGetInPlace(mapping, c) ==
    IF IsNone(mapping) \/ mapping[1] = EmptyDict \/ c.requests = <<>> THEN mapping
    ELSE Some(c.params)

\* line 78: params = dict(params) if params else {}; lines 79-84 write to that
\* new dict, so the mapping passed to the get call c is afterwards as it was
AfterGet(mapping, c) == mapping

\* a backoff that grows linearly instead of doubling
BackoffDelayLinear(attempt) == cfg.retry_base_delay * (attempt + 1)

\* lines 99, 101: exponential backoff
BackoffDelay(attempt) == cfg.retry_base_delay * Pow2(attempt)

\* lines 94-101: the delay before the retry that follows a 429
RetryDelay(resp, attempt) ==
    IF ~IsNone(resp.retry_after) /\ FloatParses(resp.retry_after[1])
    THEN FloatMillis(resp.retry_after[1])
    ELSE BackoffDelay(attempt)

\* a loop that also retries a 500
BreaksLoopRetries500(status) == status # 429 /\ status # 500

\* line 90: the statuses that end the retry loop
BreaksLoop(status) == status # 429

\* a retry test that is off by one: one retry too few
MayRetryOneFewer(attempt) == attempt < cfg.max_retries - 1

\* a retry test that is off by one: one retry too many
MayRetryOneMore(attempt) == attempt <= cfg.max_retries

\* line 93: whether a 429 on this attempt is retried
MayRetry(attempt) == attempt < cfg.max_retries

\* a pagination block whose has_more also holds when the page ends at the total
NormalizeInclusive(data, params, offset) ==
    LET pagination == IF "pagination" \in DOMAIN data THEN data["pagination"] ELSE EmptyDict
        total_count == IF "count" \in DOMAIN pagination THEN pagination["count"] ELSE 0
        effective_limit == IF "limit" \in DOMAIN params THEN params["limit"] ELSE cfg.default_limit
        has_more == (offset + effective_limit) <= total_count
    IN  IF pagination # EmptyDict
        THEN DictSet(data, "_pagination",
                     [total_count |-> total_count,
                      has_more |-> has_more,
                      next_offset |-> IF has_more THEN Some(offset + effective_limit) ELSE None])
        ELSE data

\* lines 126-135: the normalized pagination block
Normalize(data, params, offset) ==
    LET pagination == IF "pagination" \in DOMAIN data THEN data["pagination"] ELSE EmptyDict
        total_count == IF "count" \in DOMAIN pagination THEN pagination["count"] ELSE 0
        effective_limit == IF "limit" \in DOMAIN params THEN params["limit"] ELSE cfg.default_limit
        has_more == (offset + effective_limit) < total_count
    IN  IF pagination # EmptyDict
        THEN DictSet(data, "_pagination",
                     [total_count |-> total_count,
                      has_more |-> has_more,
                      next_offset |-> IF has_more THEN Some(offset + effective_limit) ELSE None])
        ELSE data

\* a status mapping that takes every 2xx for a success
StatusOutcomeAny2xx(c, resp) ==
    IF resp.status_code = 404 THEN Raised("NotFoundError", 404)
    ELSE IF resp.status_code \in {401, 403} THEN Raised("AuthenticationError", 401)
    ELSE IF resp.status_code >= 300 THEN Raised("CongressAPIError", resp.status_code)
    ELSE Returned(Normalize(resp.body, c.params, c.offset))

\* a get whose pagination block counts the retries into the offset
StatusOutcomeCountsAttempts(c, resp) ==
    IF resp.status_code = 404 THEN Raised("NotFoundError", 404)
    ELSE IF resp.status_code \in {401, 403} THEN Raised("AuthenticationError", 401)
    ELSE IF resp.status_code # 200 THEN Raised("CongressAPIError", resp.status_code)
    ELSE IF resp.kind = "undecodable" THEN Raised("JSONDecodeError", 0)
    ELSE Returned(Normalize(resp.body, c.params, c.offset + c.attempt))

\* lines 112-137: what get does with the response that ended the loop
StatusOutcome(c, resp) ==
    IF resp.status_code = 404 THEN Raised("NotFoundError", 404)
    ELSE IF resp.status_code \in {401, 403} THEN Raised("AuthenticationError", 401)
    ELSE IF resp.status_code # 200 THEN Raised("CongressAPIError", resp.status_code)
    ELSE IF resp.kind = "undecodable" THEN Raised("JSONDecodeError", 0)
    ELSE Returned(Normalize(resp.body, c.params, c.offset))

\* a get that sends the retry at once, without the backoff sleep
GetRecvRetriesAtOnce(c, resp) ==
    LET c1 == [c EXCEPT !.responses = Append(@, resp)]
    IN  IF resp.kind = "transport_error"
        THEN [c1 EXCEPT !.pc = "done", !.outcome = Raised("HTTPError", 0)]
        ELSE IF BreaksLoop(resp.status_code)
        THEN [c1 EXCEPT !.pc = "done", !.outcome = StatusOutcome(c, resp)]
        ELSE IF MayRetry(c.attempt)
        THEN SendAttempt([c1 EXCEPT !.attempt = @ + 1])
        ELSE [c1 EXCEPT !.pc = "done", !.outcome = Raised("RateLimitError", 429)]

\* lines 88-124: get from the arrival of a response to its next suspension point
GetRecv(c, resp) ==
    LET c1 == [c EXCEPT !.responses = Append(@, resp)]
    IN  IF resp.kind = "transport_error"
        THEN [c1 EXCEPT !.pc = "done", !.outcome = Raised("HTTPError", 0)]
        ELSE IF BreaksLoop(resp.status_code)
        THEN [c1 EXCEPT !.pc = "done", !.outcome = StatusOutcome(c, resp)]
        ELSE IF MayRetry(c.attempt)
        THEN [c1 EXCEPT !.pc = "sleeping", !.sleeps = Append(@, RetryDelay(resp, c.attempt))]
        ELSE [c1 EXCEPT !.pc = "done", !.outcome = Raised("RateLimitError", 429)]

\* lines 107, 86-88: asyncio.sleep returns and the next attempt is sent; a
\* closed httpx.AsyncClient refuses to send and raises RuntimeError
GetWake(c) ==
    IF client = "closed"
    THEN [c EXCEPT !.attempt = @ + 1, !.pc = "done", !.outcome = Raised("RuntimeError", 0)]
    ELSE SendAttempt([c EXCEPT !.attempt = @ + 1])

----
\* The caller session.

NoOp ==
    [name |-> "none", phase |-> "idle", outcome |-> NoOutcome,
     endpoints |-> <<>>, max_concurrent |-> 0, build |-> "none",
     input |-> EmptyDict, list_response |-> EmptyDict, at_resume |-> <<>>,
     given |-> None, mapping |-> None, awaited |-> 0,
     scope |-> "outside", params |-> None, max_results |-> None, batch_size |-> 0, offset |-> 0,
     all_results |-> <<>>, pages |-> <<>>]

Configs ==
    [max_retries : 0..MaxRetries, retry_base_delay : {RetryBaseDelayMs},
     max_limit : {MaxLimit}, default_limit : {DefaultLimit}]

Init ==
    /\ cfg \in Configs
    /\ client = "none"
    /\ op = NoOp
    /\ call = NoCall
    /\ tasks = <<>>
    /\ gather = NoOutcome

\* __aenter__ (lines 34-40): the caller's async with block is entered
Enter ==
    /\ client = "none"
    /\ op.phase = "idle"
    /\ client' = "open"
    /\ op' = [op EXCEPT !.scope = "inside"]
    /\ UNCHANGED <<cfg, call, tasks, gather>>

\* the exception that leaves the async with block, "none" on a normal return
LeavingException(o) == IF o.outcome.kind = "raise" THEN o.outcome.exc ELSE "none"

\* an __aexit__ that closes the connection only when the block ended normally
AExitOnSuccessOnly(c, exc_type) == IF c # "none" /\ exc_type = "none" THEN "closed" ELSE c

\* __aexit__ (lines 42-49): self._client after the block is left with exc_type
AExit(c, exc_type) == IF c # "none" THEN "closed" ELSE c

\* the async with block is left once the call in it has returned or raised
Exit ==
    /\ client = "open"
    /\ op.phase = "done"
    /\ client' = AExit(client, LeavingException(op))
    /\ op' = [op EXCEPT !.scope = "left"]
    /\ UNCHANGED <<cfg, call, tasks, gather>>

\* arguments the caller passes to get
GetParams == {None, Some([sort |-> "updateDate"])}
GetLimits == {None} \cup {Some(n) : n \in 0..(MaxLimit + 1)}
GetOffsets == {0, 2}

\* the caller awaits client.get(endpoint, params, limit, offset)
CallGet ==
    /\ op.phase = "idle"
    /\ client \in {"none", "open"}
    /\ \E params \in GetParams, limit \in GetLimits, offset \in GetOffsets :
          LET c == GetStart("/bill", params, limit, offset)
                  o == [op EXCEPT !.name = "get", !.given = params,
                                  !.mapping = AfterGet(params, c)]
          IN  /\ call' = c
              /\ op' = IF c.pc = "done"
                       THEN [o EXCEPT !.phase = "done", !.outcome = c.outcome]
                       ELSE [o EXCEPT !.phase = "running"]
    /\ UNCHANGED <<cfg, client, tasks, gather>>

\* the response to the caller's request arrives
Recv ==
    /\ op.name = "get" /\ op.phase = "running"
    /\ call.pc = "inflight"
    /\ \E resp \in {TransportError} \cup RateLimited \cup Failed \cup Ok(ListBodies) :
          LET c == GetRecv(call, resp)
          IN  /\ call' = c
              /\ op' = IF c.pc = "done"
                       THEN [op EXCEPT !.phase = "done", !.outcome = c.outcome]
                       ELSE op
    /\ UNCHANGED <<cfg, client, tasks, gather>>

\* the caller's backoff sleep ends
Wake ==
    /\ op.name = "get" /\ op.phase = "running"
    /\ call.pc = "sleeping"
    /\ call' = GetWake(call)
    /\ UNCHANGED <<cfg, client, op, tasks, gather>>

NextGet == Enter \/ CallGet \/ Recv \/ Wake \/ Exit

SpecGet == Init /\ [][NextGet]_vars

----
\* fetch_details_concurrent and enrich_list_response

\* the detail endpoint paths of the model
DetailPath == <<"/hearing/1", "/hearing/2", "/hearing/3", "/hearing/4">>

\* result_key and detail_key of the model's list endpoint
ResultKey == "hearings"
DetailKey == "hearing"

\* the summary item at position i of the upstream's list
Summary(i) == [id |-> i, title |-> "summary", chamber |-> "house"]

\* the caller's build_endpoint: by the item's own id, or by a field that all
\* items share (two items then have the same detail endpoint)
BuildEndpoint(build, item) ==
    IF build = "by_id" THEN DetailPath[item.id] ELSE DetailPath[1]

\* 200 bodies of the detail endpoint e: the payload is a mapping, a list
\* wrapping a mapping (a later version of the record, with one more field), not
\* a mapping, or not under detail_key
DetailBodies(e) ==
    { [hearing |-> JDict([title |-> "detail", url |-> e])],
      [hearing |-> JList(<<JDict([title |-> "amended", url |-> e, date |-> "2024"])>>)],
      [hearing |-> JStr(e)],
      [request |-> JStr(e)] }

\* what the upstream may answer to a detail request for e
DetailResponses(e) ==
    {TransportError, Undecodable, Response("response", 429, None, EmptyDict)}
        \cup {Response("response", s, None, EmptyDict) : s \in {401, 404, 500}}
        \cup Ok(DetailBodies(e))

\* exceptions.py: the subclasses of CongressAPIError
IsCongressAPIError(exc) ==
    exc \in {"CongressAPIError", "NotFoundError", "RateLimitError", "AuthenticationError"}

\* a safe_get that swallows every CongressAPIError, the hard ones included
SafeGetOutcomeSwallowsAll(o) ==
    IF o.kind = "return" THEN Returned(Some(o.value))
    ELSE IF IsCongressAPIError(o.exc) \/ o.exc = "HTTPError" THEN Returned(None)
    ELSE o

\* a safe_get that does not catch httpx.HTTPError
SafeGetOutcomeNoTransport(o) ==
    IF o.kind = "return" THEN Returned(Some(o.value))
    ELSE IF o.exc \in {"RateLimitError", "AuthenticationError"} THEN o
    ELSE IF IsCongressAPIError(o.exc) THEN Returned(None)
    ELSE o

\* a safe_get that turns every exception but the two re-raised ones into None
SafeGetOutcomeCatchesException(o) ==
    IF o.kind = "return" THEN Returned(Some(o.value))
    ELSE IF o.exc \in {"RateLimitError", "AuthenticationError"} THEN o
    ELSE Returned(None)

\* lines 247-255: safe_get, from the outcome o of its get call
SafeGetOutcome(o) ==
    IF o.kind = "return" THEN Returned(Some(o.value))
    ELSE IF o.exc \in {"RateLimitError", "AuthenticationError"} THEN o
    ELSE IF IsCongressAPIError(o.exc) \/ o.exc = "HTTPError" THEN Returned(None)
    ELSE o

\* a task of asyncio.gather running safe_get: its get call and its own outcome
TaskOf(c) ==
    [call |-> c, outcome |-> IF c.pc = "done" THEN SafeGetOutcome(c.outcome) ELSE NoOutcome]

\* a gather that cancels the unfinished tasks as soon as one task raises
AfterTaskStepCancelsSiblings(ts, i) ==
    IF ts[i].outcome.kind # "raise" THEN ts
    ELSE [j \in 1..Len(ts) |->
             IF ts[j].call.pc = "done" THEN ts[j]
             ELSE [call |-> [ts[j].call EXCEPT !.pc = "done",
                                              !.outcome = Raised("CancelledError", 0)],
                   outcome |-> Raised("CancelledError", 0)]]

\* line 258: the tasks of asyncio.gather after task i has taken a step: gather
\* cancels no task when one of them raises, the others are as they were
AfterTaskStep(ts, i) == ts

\* a slice that keeps one endpoint too many
SliceOneMore(seq, n) == SubSeq(seq, 1, Min(Len(seq), n + 1))

\* lines 245, 287: seq[:n] for n >= 0
Slice(seq, n) == SubSeq(seq, 1, Min(Len(seq), n))

\* a gather that is done with the first task that returns
GatherAfterFirstReturn(g, ts, i) ==
    IF g.kind # "pending" THEN g
    ELSE IF ts[i].outcome.kind = "raise" THEN ts[i].outcome
    ELSE IF ts[i].outcome.kind = "return"
    THEN Returned([j \in 1..Len(ts) |-> ts[j].outcome.value])
    ELSE g

\* line 258: the outer future of asyncio.gather after task i has finished a
\* step: it takes the first exception a task raises, at once, and otherwise the
\* list of all results when the last task is done
GatherAfter(g, ts, i) ==
    IF g.kind # "pending" THEN g
    ELSE IF ts[i].outcome.kind = "raise" THEN ts[i].outcome
    ELSE IF \A j \in 1..Len(ts) : ts[j].outcome.kind = "return"
    THEN Returned([j \in 1..Len(ts) |-> ts[j].outcome.value])
    ELSE g

RECURSIVE GatherFold(_, _, _)
GatherFold(g, ts, i) ==
    IF i > Len(ts) THEN g ELSE GatherFold(GatherAfter(g, ts, i), ts, i + 1)

\* lines 257-258: the tasks run, in order, up to their first suspension point
LaunchTasks(endpoints) ==
    [i \in 1..Len(endpoints) |-> TaskOf(GetStart(endpoints[i], None, None, 0))]

\* lines 257-258: gather over the launched tasks (no task: an empty result)
LaunchGather(ts) ==
    IF Len(ts) = 0 THEN Returned(<<>>) ELSE GatherFold(NoOutcome, ts, 1)

\* lines 295-301: the detail payload taken from one detail response, or None
DetailData(detail_response) ==
    IF IsNone(detail_response) THEN None
    ELSE LET body == detail_response[1]
         IN  IF body = EmptyDict \/ DetailKey \notin DOMAIN body THEN None
             ELSE LET d == body[DetailKey]
                      d1 == IF d.type = "list" /\ d.val # <<>> THEN d.val[1] ELSE d
                  IN  IF d1.type = "dict" THEN Some(d1.val) ELSE None

\* lines 293-301: detail_map, keyed by endpoint; a later entry for the same
\* endpoint replaces an earlier one
DetailMap(endpoints, details) ==
    LET n == Min(Len(endpoints), Len(details))
        ok == {i \in 1..n : ~IsNone(DetailData(details[i]))}
        last(e) == CHOOSE i \in ok :
                       /\ endpoints[i] = e
                       /\ \A j \in ok : endpoints[j] = e => j <= i
    IN  [e \in {endpoints[i] : i \in ok} |-> DetailData(details[last(e)])[1]]

\* line 282: items = list_response.get(result_key, [])
Items(list_response) ==
    IF ResultKey \in DOMAIN list_response THEN list_response[ResultKey] ELSE <<>>

\* an enricher without the early return
ReturnsUnchangedNever(items) == FALSE

\* lines 283-284: with no item the list response is returned as it is
ReturnsUnchanged(items) == items = <<>>

\* a merge that keeps only the items a detail was fetched for
EnrichedItemsOnlyFetched(items, endpoints, detail_map) ==
    [i \in 1..Min(Len(items), Len(endpoints)) |->
        IF endpoints[i] \in DOMAIN detail_map
        THEN DictMerge(items[i], detail_map[endpoints[i]])
        ELSE items[i]]

\* lines 306-314: the enriched items
EnrichedItems(items, endpoints, detail_map) ==
    [i \in 1..Len(items) |->
        IF i <= Len(endpoints) /\ endpoints[i] \in DOMAIN detail_map
        THEN DictMerge(items[i], detail_map[endpoints[i]])
        ELSE items[i]]

RECURSIVE FailedEndpoints(_, _, _)
\* lines 305-313: failed_endpoints, in item order, from position i on
FailedEndpoints(endpoints, detail_map, i) ==
    IF i > Len(endpoints) THEN <<>>
    ELSE IF endpoints[i] \in DOMAIN detail_map
    THEN FailedEndpoints(endpoints, detail_map, i + 1)
    ELSE <<endpoints[i]>> \o FailedEndpoints(endpoints, detail_map, i + 1)

\* line 321: the warning text for one endpoint
Warning(endpoint) == <<"Detail enrichment failed for: ", endpoint>>

\* lines 292-325: enrich_list_response after fetch_details_concurrent returned
EnrichMerge(list_response, endpoints, details) ==
    LET items == Items(list_response)
        detail_map == DetailMap(endpoints, details)
        failed == FailedEndpoints(endpoints, detail_map, 1)
        r1 == DictSet(list_response, ResultKey, EnrichedItems(items, endpoints, detail_map))
    IN  IF failed # <<>>
        THEN DictSet(r1, "_warnings", [i \in 1..Len(failed) |-> Warning(failed[i])])
        ELSE r1

\* what is kept of the tasks as they are when the caller runs again: for each
\* fetch, where its get call stands and how it and safe_get ended
Seen(ts) ==
    [i \in 1..Len(ts) |->
        [call |-> [pc |-> ts[i].call.pc, outcome |-> ts[i].call.outcome],
         outcome |-> ts[i].outcome]]

\* an enricher that merges what the finished fetches gave before it raises
ResumedMergesFinished(o, g, ts) ==
    IF o.name = "fetch"
    THEN [o EXCEPT !.phase = "done", !.outcome = g, !.at_resume = Seen(ts)]
    ELSE LET details == IF g.kind = "return" THEN g.value
                        ELSE [j \in 1..Len(ts) |->
                                 IF ts[j].outcome.kind = "return"
                                 THEN ts[j].outcome.value ELSE None]
             r == EnrichMerge(o.list_response, o.endpoints, details)
         IN  [o EXCEPT !.phase = "done", !.list_response = r,
                       !.outcome = IF g.kind = "return" THEN Returned(r) ELSE g,
                       !.at_resume = Seen(ts)]

\* the caller's operation once gather's future g is done: fetch_details_concurrent
\* returns the list or raises; enrich_list_response merges or raises
Resumed(o, g, ts) ==
    IF o.name = "fetch" \/ g.kind = "raise"
    THEN [o EXCEPT !.phase = "done", !.outcome = g, !.at_resume = Seen(ts)]
    ELSE LET r == EnrichMerge(o.list_response, o.endpoints, g.value)
         IN  [o EXCEPT !.phase = "done", !.list_response = r, !.outcome = Returned(r),
                       !.at_resume = Seen(ts)]

\* the operation after its tasks were launched: with no task gather is done at
\* once and the caller never suspends
Launched(o, ts) ==
    IF Len(ts) = 0 THEN Resumed(o, LaunchGather(ts), ts) ELSE [o EXCEPT !.phase = "running"]

ConfigsOfTasks ==
    [max_retries : 0..MaxTaskRetries, retry_base_delay : {RetryBaseDelayMs},
     max_limit : {MaxLimit}, default_limit : {DefaultLimit}]

InitEnrich ==
    /\ cfg \in ConfigsOfTasks
    /\ client = "none"
    /\ op = NoOp
    /\ call = NoCall
    /\ tasks = <<>>
    /\ gather = NoOutcome

\* the caller awaits client.fetch_details_concurrent(endpoints, max_concurrent)
CallFetch ==
    /\ op.phase = "idle"
    /\ client \in {"none", "open"}
    /\ \E n \in 0..MaxItems, mc \in 0..MaxConcurrent, build \in {"by_id", "same"} :
          LET endpoints == [i \in 1..n |-> BuildEndpoint(build, Summary(i))]
              ts == LaunchTasks(Slice(endpoints, mc))
          IN  /\ tasks' = ts
              /\ gather' = LaunchGather(ts)
              /\ op' = Launched([op EXCEPT !.name = "fetch", !.endpoints = endpoints,
                                           !.max_concurrent = mc], ts)
    /\ UNCHANGED <<cfg, client, call>>

\* the list responses the caller passes to enrich_list_response: up to
\* MaxItems summary items under result_key, or no result_key at all
ListResponses ==
    {[hearings |-> [i \in 1..n |-> Summary(i)], pagination |-> [count |-> n]] :
        n \in 0..MaxItems}
        \cup {[pagination |-> [count |-> 0]]}

\* the caller awaits client.enrich_list_response(list_response, result_key,
\* detail_key, build_endpoint, max_concurrent)
CallEnrich ==
    /\ op.phase = "idle"
    /\ client \in {"none", "open"}
    /\ \E lr \in ListResponses, mc \in 0..MaxConcurrent, build \in {"by_id", "same"} :
          LET items == Items(lr)
              sliced == Slice(items, mc)
              endpoints == [i \in 1..Len(sliced) |-> BuildEndpoint(build, sliced[i])]
              ts == LaunchTasks(Slice(endpoints, mc))
              o == [op EXCEPT !.name = "enrich", !.endpoints = endpoints,
                              !.max_concurrent = mc, !.build = build,
                              !.input = lr, !.list_response = lr]
          IN  IF ReturnsUnchanged(items)
              THEN /\ op' = [o EXCEPT !.phase = "done", !.outcome = Returned(lr)]
                   /\ UNCHANGED <<tasks, gather>>
              ELSE /\ tasks' = ts
                   /\ gather' = LaunchGather(ts)
                   /\ op' = Launched(o, ts)
    /\ UNCHANGED <<cfg, client, call>>

\* the response to the request of task i arrives
TaskRecv(i) ==
    /\ tasks[i].call.pc = "inflight"
    /\ \E resp \in DetailResponses(tasks[i].call.endpoint) :
          LET ts == AfterTaskStep([tasks EXCEPT ![i] = TaskOf(GetRecv(tasks[i].call, resp))], i)
          IN  /\ tasks' = ts
              /\ gather' = GatherAfter(gather, ts, i)
    /\ UNCHANGED <<cfg, client, op, call>>

\* the backoff sleep of task i ends
TaskWake(i) ==
    /\ tasks[i].call.pc = "sleeping"
    /\ LET ts == AfterTaskStep([tasks EXCEPT ![i] = TaskOf(GetWake(tasks[i].call))], i)
       IN  /\ tasks' = ts
           /\ gather' = GatherAfter(gather, ts, i)
    /\ UNCHANGED <<cfg, client, op, call>>

\* gather's future is done and the caller's coroutine runs again
Resume ==
    /\ op.name \in {"fetch", "enrich"}
    /\ op.phase = "running"
    /\ gather.kind # "pending"
    /\ op' = Resumed(op, gather, tasks)
    /\ UNCHANGED <<cfg, client, call, tasks, gather>>

NextEnrich ==
    \/ Enter
    \/ CallFetch
    \/ CallEnrich
    \/ \E i \in 1..Len(tasks) : TaskRecv(i)
    \/ \E i \in 1..Len(tasks) : TaskWake(i)
    \/ Resume
    \/ Exit

SpecEnrich == InitEnrich /\ [][NextEnrich]_vars

----
\* CongressClient._extract_results and CongressClient.get_all

\* lines 195-220: result_keys, in the order they are tried
ResultKeys ==
    << "bills", "amendments", "members", "committees", "nominations", "treaties",
       "hearings", "reports", "summaries", "laws", "communications",
       "houseCommunications", "senateCommunications", "committeeMeetings",
       "committeePrints", "committeeReports", "congressionalRecord",
       "dailyCongressionalRecord", "boundCongressionalRecord", "houseRequirements",
       "crsReports", "houseVotes", "congresses", "results" >>

RECURSIVE ExtractFromFirstPresent(_, _)
\* a scan that stops at the first key that is present, list or not
ExtractFromFirstPresent(response, i) ==
    IF i > Len(ResultKeys) THEN <<>>
    ELSE IF ResultKeys[i] \in DOMAIN response
    THEN IF response[ResultKeys[i]].type = "list" THEN response[ResultKeys[i]].val ELSE <<>>
    ELSE ExtractFromFirstPresent(response, i + 1)

RECURSIVE ExtractFrom(_, _)
\* lines 222-228: the scan of result_keys from position i on
ExtractFrom(response, i) ==
    IF i > Len(ResultKeys) THEN <<>>
    ELSE IF ResultKeys[i] \in DOMAIN response /\ response[ResultKeys[i]].type = "list"
    THEN response[ResultKeys[i]].val
    ELSE ExtractFrom(response, i + 1)

\* _extract_results(response)
ExtractResults(response) == ExtractFrom(response, 1)

\* python truthiness of max_results: None and 0 are falsy
Truthy(max_results) == ~IsNone(max_results) /\ max_results[1] # 0

\* a batch size that ignores the configured page size
BatchSizeUnclamped(max_results) == IF Truthy(max_results) THEN max_results[1] ELSE cfg.max_limit

\* line 160: batch_size
BatchSize(max_results) ==
    Min(IF Truthy(max_results) THEN max_results[1] ELSE cfg.max_limit, cfg.max_limit)

\* an accumulator that is never cut
TruncateNever(all_results, max_results) == all_results

\* line 176: all_results[:max_results]
Truncate(all_results, max_results) == SubSeq(all_results, 1, Min(max_results, Len(all_results)))

\* line 187: the value get_all returns
GetAllResult(all_results) == [results |-> all_results, count |-> Len(all_results)]

\* one finished page fetch, kept for the properties: the query parameters of
\* its requests, how many requests it took, and how the get call ended
Page(c) == [params |-> c.params, requests |-> Len(c.requests), outcome |-> c.outcome]

\* a paginator that answers a failed page with what it has accumulated
GetAllAfterPageReturnsPartial(o, c) ==
    LET o1 == [o EXCEPT !.pages = Append(@, Page(c))]
    IN  IF c.outcome.kind = "raise"
        THEN [o1 EXCEPT !.phase = "done", !.outcome = Returned(GetAllResult(o.all_results))]
        ELSE LET response == c.outcome.value
                 results == ExtractResults(response)
                 all_results == o.all_results \o results
                 pagination == IF "pagination" \in DOMAIN response
                               THEN response["pagination"] ELSE EmptyDict
                 total_count == IF "count" \in DOMAIN pagination
                                THEN pagination["count"] ELSE 0
             IN  IF Truthy(o.max_results) /\ Len(all_results) >= o.max_results[1]
                 THEN LET cut == Truncate(all_results, o.max_results[1])
                      IN  [o1 EXCEPT !.phase = "done", !.all_results = cut,
                                     !.outcome = Returned(GetAllResult(cut))]
                 ELSE IF o.offset + o.batch_size >= total_count \/ results = <<>>
                 THEN [o1 EXCEPT !.phase = "done", !.all_results = all_results,
                                 !.outcome = Returned(GetAllResult(all_results))]
                 ELSE [o1 EXCEPT !.all_results = all_results,
                                 !.offset = @ + o.batch_size]

\* lines 170-185: get_all after the get call c of the current page has ended:
\* an exception of get leaves get_all; otherwise the page is accumulated and the
\* loop ends or goes on to the next offset
GetAllAfterPage(o, c) ==
    LET o1 == [o EXCEPT !.pages = Append(@, Page(c))]
    IN  IF c.outcome.kind = "raise"
        THEN [o1 EXCEPT !.phase = "done", !.outcome = c.outcome]
        ELSE LET response == c.outcome.value
                 results == ExtractResults(response)
                 all_results == o.all_results \o results
                 pagination == IF "pagination" \in DOMAIN response
                               THEN response["pagination"] ELSE EmptyDict
                 total_count == IF "count" \in DOMAIN pagination
                                THEN pagination["count"] ELSE 0
             IN  IF Truthy(o.max_results) /\ Len(all_results) >= o.max_results[1]
                 THEN LET cut == Truncate(all_results, o.max_results[1])
                      IN  [o1 EXCEPT !.phase = "done", !.all_results = cut,
                                     !.outcome = Returned(GetAllResult(cut))]
                 ELSE IF o.offset + o.batch_size >= total_count \/ results = <<>>
                 THEN [o1 EXCEPT !.phase = "done", !.all_results = all_results,
                                 !.outcome = Returned(GetAllResult(all_results))]
                 ELSE [o1 EXCEPT !.all_results = all_results,
                                 !.offset = @ + o.batch_size]

\* line 157: params = dict(params) if params else {}: get_all's own dict
GetAllParams(params) == IF IsNone(params) THEN Some(EmptyDict) ELSE params

\* line 163: the get call of the page at the operation's offset
PageGet(o) == GetStart("/bill", o.params, Some(o.batch_size), o.offset)

\* the 200 bodies of the page requested with offset and limit: any number of
\* items up to one more than asked for, numbered by their position in the
\* collection, with any reported count or without pagination metadata
PageBodies(offset, limit) ==
    LET items(n) == [i \in 1..n |-> [number |-> offset + i]]
    IN  {[bills |-> JList(items(n)), pagination |-> [count |-> t]] :
            n \in 0..(limit + 1), t \in 0..MaxTotal}
        \cup {[bills |-> JList(items(n))] : n \in 0..(limit + 1)}

\* what the upstream answers to a page request
PageResponses(c) ==
    {TransportError, Response("response", 429, None, EmptyDict)}
        \cup {Response("response", s, None, EmptyDict) : s \in {404, 500}}
        \cup Ok(PageBodies(c.offset, c.params["limit"]))

\* get_all with the get call c of its current page: when c has ended the loop
\* body runs on, up to the first suspension of the next page's get call
GetAllStep(o, c) ==
    IF c.pc # "done" THEN <<o, c>>
    ELSE LET o1 == GetAllAfterPage(o, c)
         IN  IF o1.phase = "done" THEN <<o1, c>>
             ELSE LET c1 == PageGet(o1)
                      o2 == [o1 EXCEPT !.params = AfterGet(@, c1)]
                  IN  IF c1.pc = "done" THEN <<GetAllAfterPage(o2, c1), c1>> ELSE <<o2, c1>>

\* arguments the caller passes to get_all
GetAllMaxResults == {None} \cup {Some(n) : n \in 0..MaxResults}

\* the caller awaits client.get_all(endpoint, params, max_results)
CallGetAll ==
    /\ op.phase = "idle"
    /\ client \in {"none", "open"}
    /\ \E params \in GetParams, max_results \in GetAllMaxResults :
          LET o == [op EXCEPT !.name = "get_all", !.phase = "running",
                              !.given = params, !.mapping = params,
                              !.params = GetAllParams(params),
                              !.max_results = max_results,
                              !.batch_size = BatchSize(max_results)]
              c == PageGet(o)
              step == GetAllStep([o EXCEPT !.params = AfterGet(@, c)], c)
          IN  /\ op' = step[1]
              /\ call' = step[2]
    /\ UNCHANGED <<cfg, client, tasks, gather>>

\* the response to the current page request arrives
PageRecv ==
    /\ op.name = "get_all" /\ op.phase = "running"
    /\ call.pc = "inflight"
    /\ \E resp \in PageResponses(call) :
          LET step == GetAllStep(op, GetRecv(call, resp))
          IN  /\ op' = step[1]
              /\ call' = step[2]
    /\ UNCHANGED <<cfg, client, tasks, gather>>

\* the backoff sleep of the current page's get call ends
PageWake ==
    /\ op.name = "get_all" /\ op.phase = "running"
    /\ call.pc = "sleeping"
    /\ LET step == GetAllStep(op, GetWake(call))
       IN  /\ op' = step[1]
           /\ call' = step[2]
    /\ UNCHANGED <<cfg, client, tasks, gather>>

NextGetAll == Enter \/ CallGetAll \/ PageRecv \/ PageWake \/ Exit

SpecGetAll == InitEnrich /\ [][NextGetAll]_vars

\* responses handed to _extract_results: each of a few keys (three of
\* result_keys, one unknown) is absent or holds a list, a string or a dict
ExtractKeys == <<"bills", "members", "results", "request">>

ExtractValues(k) ==
    {JList(<<>>), JList(<<[key |-> k]>>), JStr(k), JDict([key |-> k])}

ExtractInputs ==
    LET Choice(k) == {None} \cup {Some(v) : v \in ExtractValues(k)}
        Choices == [1..Len(ExtractKeys) -> UNION {Choice(ExtractKeys[i]) : i \in 1..Len(ExtractKeys)}]
        Valid(f) == \A i \in 1..Len(ExtractKeys) : f[i] \in Choice(ExtractKeys[i])
        Present(f) == {ExtractKeys[i] : i \in {j \in 1..Len(ExtractKeys) : ~IsNone(f[j])}}
        Index(k) == CHOOSE i \in 1..Len(ExtractKeys) : ExtractKeys[i] = k
    IN  {[k \in Present(f) |-> f[Index(k)][1]] : f \in {g \in Choices : Valid(g)}}

InitExtract ==
    /\ cfg \in ConfigsOfTasks
    /\ client = "none"
    /\ op \in {[NoOp EXCEPT !.input = r] : r \in ExtractInputs}
    /\ call = NoCall
    /\ tasks = <<>>
    /\ gather = NoOutcome

\* self._extract_results(response) is evaluated
Extract ==
    /\ op.phase = "idle"
    /\ op' = [op EXCEPT !.name = "extract", !.phase = "done",
                        !.outcome = Returned(ExtractResults(op.input))]
    /\ UNCHANGED <<cfg, client, call, tasks, gather>>

NextExtract == Extract

SpecExtract == InitExtract /\ [][NextExtract]_vars

----
\* congress_mcp.middleware: EnumValidationMiddleware

\* an exception that carries a detail (the errors of a ValidationError, the
\* message of a ToolError)
RaisedWith(e, detail) == [kind |-> "raise", value |-> detail, exc |-> e, status_code |-> 0]

\* lines 27-33: ENUM_PARAMS, the enum classes by name
ENUM_PARAMS ==
    [bill_type |-> "BillType", chamber |-> "Chamber", amendment_type |-> "AmendmentType",
     law_type |-> "LawType", report_type |-> "ReportType"]

\* lines 36-46: _resolve_enum_class; a tool name is the sequence of its words
\* and "house" in tool_name is true of a name with the word house
ResolveEnumClass(field_name, tool_name) ==
    IF field_name = "communication_type"
    THEN IF \E i \in 1..Len(tool_name) : tool_name[i] = "house"
         THEN Some("HouseCommunicationType")
         ELSE Some("SenateCommunicationType")
    ELSE IF field_name \in DOMAIN ENUM_PARAMS THEN Some(ENUM_PARAMS[field_name]) ELSE None

\* lines 53-89: _format_prescriptive_error; the message is kept as its form,
\* the field, the rejected input and the enum class whose values it lists
FormatPrescriptiveError(field_name, input_value, tool_name) ==
    LET enum_cls == ResolveEnumClass(field_name, tool_name)
        form == IF input_value.type = "none" THEN "null is not valid"
                ELSE IF input_value.type = "bool" THEN "boolean is not valid"
                ELSE "value is not valid"
    IN  IF IsNone(enum_cls) THEN None
        ELSE Some([form |-> form, field |-> field_name, input |-> input_value,
                   must_be_one_of |-> enum_cls[1]])

\* lines 109-110: the field an error is about
FieldName(error) == IF error.loc = <<>> THEN "unknown" ELSE error.loc[Len(error.loc)]

RECURSIVE PrescriptiveParts(_, _, _)
\* lines 106-115: prescriptive_parts, from error i on
PrescriptiveParts(errors, tool_name, i) ==
    IF i > Len(errors) THEN <<>>
    ELSE LET msg == FormatPrescriptiveError(FieldName(errors[i]), errors[i].input, tool_name)
             rest == PrescriptiveParts(errors, tool_name, i + 1)
         IN  IF IsNone(msg) THEN rest ELSE <<msg[1]>> \o rest

\* an on_call_tool that turns only errors about enum parameters into ToolError
OnCallToolEnumOnly(tool_name, next) ==
    IF next.kind = "raise" /\ next.exc = "ValidationError"
    THEN LET parts == PrescriptiveParts(next.value.errors, tool_name, 1)
         IN  [outcome |-> IF parts # <<>>
                          THEN RaisedWith("ToolError", [text |-> "prescriptive", parts |-> parts])
                          ELSE next,
              awaited |-> 1]
    ELSE [outcome |-> next, awaited |-> 1]

\* lines 97-121: on_call_tool, from what the one await of call_next gives:
\* its outcome and how often call_next was awaited
OnCallTool(tool_name, next) ==
    IF next.kind = "raise" /\ next.exc = "ValidationError"
    THEN LET parts == PrescriptiveParts(next.value.errors, tool_name, 1)
         IN  [outcome |-> IF parts # <<>>
                          THEN RaisedWith("ToolError", [text |-> "prescriptive", parts |-> parts])
                          ELSE RaisedWith("ToolError", [text |-> "str(exc)", parts |-> next.value.errors]),
              awaited |-> 1]
    ELSE [outcome |-> next, awaited |-> 1]

\* tools the middleware is called for
ToolNames ==
    { <<"get", "bill">>, <<"list", "house", "communications">>,
      <<"list", "senate", "communications">> }

\* the errors of a ValidationError: where (loc) and the rejected input
ErrorLocs ==
    { <<>>, <<"bill_type">>, <<"communication_type">>, <<"limit">>, <<"body", "chamber">> }
ErrorInputs ==
    { [type |-> "none", val |-> "None"], [type |-> "bool", val |-> "True"],
      [type |-> "str", val |-> "both"] }
ValidationErrors ==
    UNION {[1..n -> [loc : ErrorLocs, input : ErrorInputs]] : n \in 1..MaxErrors}

\* what awaiting call_next(context) gives
NextOutcomes ==
    {Returned([content |-> "result"]), Returned(EmptyDict)}
        \cup {RaisedWith("ValidationError", [errors |-> errors]) : errors \in ValidationErrors}
        \cup {Raised("RuntimeError", 0), Raised("NotFoundError", 404),
              RaisedWith("ToolError", [text |-> "from the tool", parts |-> <<>>])}

InitMiddleware ==
    /\ cfg \in ConfigsOfTasks
    /\ client = "none"
    /\ op \in {[NoOp EXCEPT !.input = [tool_name |-> t, next |-> n]] :
                  t \in ToolNames, n \in NextOutcomes}
    /\ call = NoCall
    /\ tasks = <<>>
    /\ gather = NoOutcome

\* the server calls middleware.on_call_tool(context, call_next)
CallTool ==
    /\ op.phase = "idle"
    /\ LET r == OnCallTool(op.input.tool_name, op.input.next)
       IN  op' = [op EXCEPT !.name = "on_call_tool", !.phase = "done",
                            !.outcome = r.outcome, !.awaited = r.awaited]
    /\ UNCHANGED <<cfg, client, call, tasks, gather>>

NextMiddleware == CallTool

SpecMiddleware == InitMiddleware /\ [][NextMiddleware]_vars

----
\* The client with all its operations.

NextAll ==
    \/ Enter
    \/ CallGet
    \/ Recv
    \/ Wake
    \/ CallGetAll
    \/ PageRecv
    \/ PageWake
    \/ CallFetch
    \/ CallEnrich
    \/ \E i \in 1..Len(tasks) : TaskRecv(i)
    \/ \E i \in 1..Len(tasks) : TaskWake(i)
    \/ Resume
    \/ Exit

SpecAll == InitEnrich /\ [][NextAll]_vars

----
\* Properties of fetch_details_concurrent and enrich_list_response.

\* the errors safe_get re-raises and the errors it turns into None
HardErrors == {"RateLimitError", "AuthenticationError"}
SoftErrors == {"CongressAPIError", "NotFoundError", "HTTPError"}

\* the get call of task i ended in one of the errors
GetRaised(ts, i, errors) ==
    ts[i].call.outcome.kind = "raise" /\ ts[i].call.outcome.exc \in errors

\* C6 as stated: the RateLimitError or AuthenticationError of any detail fetch
\* is the error the whole call raises.
C6_EveryHardErrorPropagates ==
    \A i \in 1..Len(op.at_resume) :
        (op.phase = "done" /\ GetRaised(op.at_resume, i, HardErrors))
            => /\ op.outcome.kind = "raise"
               /\ op.outcome.exc = op.at_resume[i].call.outcome.exc

\* C6 (amended): a RateLimitError or AuthenticationError of a detail fetch is
\* never turned into a None placeholder: the task raises it, gather fails at
\* once, and the call never returns a list or a response: it raises the error
\* of a task that had raised when the caller ran again, and
\* enrich_list_response leaves the list response without _warnings.
C6_HardErrorNeverSwallowed ==
    \A i \in 1..Len(tasks) :
        GetRaised(tasks, i, HardErrors)
            => /\ tasks[i].outcome = tasks[i].call.outcome
               /\ gather.kind = "raise"
               /\ op.outcome.kind # "return"
               /\ "_warnings" \notin DOMAIN op.list_response
               /\ (op.phase = "done")
                     => /\ op.outcome.kind = "raise"
                        /\ \E j \in 1..Len(op.at_resume) :
                              /\ op.at_resume[j].outcome.kind = "raise"
                              /\ op.outcome = op.at_resume[j].call.outcome

\* enrich_list_response raised RateLimitError although a sibling fetch had
\* failed softly and another had succeeded
C6_Witness ==
    /\ op.name = "enrich"
    /\ op.phase = "done"
    /\ op.outcome.exc = "RateLimitError"
    /\ Len(tasks) = 2
    /\ GetRaised(tasks, 2, HardErrors)
    /\ tasks[1].outcome = Returned(None)

\* C7: when fetch_details_concurrent returns, a position whose fetch failed
\* with NotFoundError, another CongressAPIError or a transport error holds None
\* and every other position holds the response of its own fetch; the call
\* raises only if some fetch raised an error that is not one of these.
C7_SoftFailureIsNone ==
    (op.name = "fetch" /\ op.phase = "done")
        => /\ (op.outcome.kind = "return")
                => /\ Len(op.outcome.value) = Len(tasks)
                   /\ \A i \in 1..Len(tasks) :
                         LET g == tasks[i].call.outcome
                         IN  /\ g.kind \in {"return", "raise"}
                             /\ (g.kind = "raise")
                                   => (g.exc \in SoftErrors /\ op.outcome.value[i] = None)
                             /\ (g.kind = "return")
                                   => /\ op.outcome.value[i] = Some(g.value)
                                      /\ g.value =
                                           tasks[i].call.responses[Len(tasks[i].call.responses)].body
           /\ (op.outcome.kind = "raise")
                => \E i \in 1..Len(op.at_resume) :
                      /\ op.at_resume[i].call.outcome.kind = "raise"
                      /\ op.at_resume[i].call.outcome.exc \notin SoftErrors

\* the call returned a response at position 1 and None at position 2, whose
\* fetch ended in a transport error
C7_Witness ==
    /\ op.name = "fetch"
    /\ op.outcome.kind = "return"
    /\ Len(op.outcome.value) = 2
    /\ op.outcome.value[1] # None
    /\ op.outcome.value[2] = None
    /\ tasks[2].call.outcome.exc = "HTTPError"

\* C8: fetch_details_concurrent runs one fetch per endpoint of the first
\* max_concurrent endpoints, each for its own endpoint, and no other request;
\* when it returns, the list has min(len(endpoints), max_concurrent) elements
\* and element i is the outcome of the fetch of endpoints[i].
C8_TruncatedPositional ==
    (op.name = "fetch")
        => /\ Len(tasks) = Min(Len(op.endpoints), op.max_concurrent)
           /\ \A i \in 1..Len(tasks) :
                 /\ tasks[i].call.endpoint = op.endpoints[i]
                 /\ \A r \in 1..Len(tasks[i].call.requests) :
                       tasks[i].call.requests[r].endpoint = op.endpoints[i]
           /\ (op.outcome.kind = "return")
                => /\ Len(op.outcome.value) = Min(Len(op.endpoints), op.max_concurrent)
                   /\ \A i \in 1..Len(op.outcome.value) :
                         \/ /\ op.outcome.value[i] = None
                            /\ tasks[i].call.outcome.kind = "raise"
                         \/ /\ op.outcome.value[i] = Some(tasks[i].call.outcome.value)
                            /\ tasks[i].call.outcome.kind = "return"

\* two endpoints were passed with max_concurrent = 1: one element came back
C8_Witness ==
    /\ op.name = "fetch"
    /\ op.outcome.kind = "return"
    /\ Len(op.endpoints) = 2
    /\ op.max_concurrent = 1
    /\ Len(op.outcome.value) = 1
    /\ op.outcome.value[1] # None

\* exceptions of get that are neither CongressAPIError nor httpx.HTTPError
UnexpectedErrors == {"RuntimeError", "JSONDecodeError"}

\* C21 as stated: an exception of a detail fetch that is neither a
\* CongressAPIError nor a transport error is the exception
\* fetch_details_concurrent raises.
C21_EveryUnexpectedPropagates ==
    \A i \in 1..Len(op.at_resume) :
        (op.phase = "done" /\ GetRaised(op.at_resume, i, UnexpectedErrors))
            => /\ op.outcome.kind = "raise"
               /\ op.outcome.exc = op.at_resume[i].call.outcome.exc

\* C21 (amended): an exception of a detail fetch that is neither a
\* CongressAPIError nor a transport error is never turned into a None
\* placeholder: the task raises it, gather fails, and the call never returns a
\* list: it raises the exception of a task that had raised when the caller ran
\* again (this one, unless a sibling had raised before it).
C21_UnexpectedNeverSwallowed ==
    \A i \in 1..Len(tasks) :
        GetRaised(tasks, i, UnexpectedErrors)
            => /\ tasks[i].outcome = tasks[i].call.outcome
               /\ gather.kind = "raise"
               /\ op.outcome.kind # "return"
               /\ (op.phase = "done")
                     => /\ op.outcome.kind = "raise"
                        /\ \E j \in 1..Len(op.at_resume) :
                              /\ op.at_resume[j].outcome.kind = "raise"
                              /\ op.outcome = op.at_resume[j].call.outcome
               /\ (\A j \in 1..Len(op.at_resume) :
                        j # i => op.at_resume[j].outcome.kind # "raise")
                     => (op.phase = "done" => op.outcome = tasks[i].call.outcome)

\* fetch_details_concurrent raised the JSONDecodeError of its second fetch
\* although the first fetch had failed softly
C21_Witness ==
    /\ op.name = "fetch"
    /\ op.phase = "done"
    /\ op.outcome.exc = "JSONDecodeError"
    /\ Len(tasks) = 2
    /\ GetRaised(tasks, 2, UnexpectedErrors)
    /\ tasks[1].outcome = Returned(None)

FetchFailed(i) == tasks[i].outcome = Returned(None)

\* C9 as stated: after enrich_list_response, every item whose detail fetch
\* failed is the original summary item, and _warnings has an entry for its
\* detail endpoint.
C9_FailedItemUnchangedAndWarned ==
    (op.name = "enrich" /\ op.phase = "done" /\ op.outcome.kind = "return")
        => \A i \in 1..Len(tasks) :
              FetchFailed(i)
                 => /\ op.list_response[ResultKey][i] = op.input[ResultKey][i]
                    /\ "_warnings" \in DOMAIN op.list_response
                    /\ \E w \in 1..Len(op.list_response["_warnings"]) :
                          op.list_response["_warnings"][w] = Warning(op.endpoints[i])

\* the attempted items whose detail response gave no usable payload
FailedItems ==
    {i \in 1..Len(tasks) :
        tasks[i].outcome.kind = "return" /\ IsNone(DetailData(tasks[i].outcome.value))}

\* C10 as stated: enrich_list_response adds _warnings exactly when an attempted
\* item failed enrichment, with one entry per failed item.
C10_WarningsIffFailure ==
    (op.name = "enrich" /\ op.phase = "done" /\ op.outcome.kind = "return")
        => /\ ("_warnings" \in DOMAIN op.list_response) <=> (FailedItems # {})
           /\ ("_warnings" \in DOMAIN op.list_response)
                => Len(op.list_response["_warnings"]) = Cardinality(FailedItems)

\* C11 as stated: after enrich_list_response, every item whose own detail
\* fetch gave a payload has exactly the keys of its summary and of that
\* payload, with the payload's value for each of the payload's keys and the
\* summary's value for every other key.
C11_MergedItemIsUnion ==
    (op.name = "enrich" /\ op.phase = "done" /\ op.outcome.kind = "return")
        => \A i \in 1..Len(tasks) :
              LET d == DetailData(tasks[i].outcome.value)
                  summary == op.input[ResultKey][i]
                  out == op.list_response[ResultKey][i]
              IN  ~IsNone(d)
                     => /\ DOMAIN out = (DOMAIN summary) \cup (DOMAIN d[1])
                        /\ \A k \in DOMAIN d[1] : out[k] = d[1][k]
                        /\ \A k \in (DOMAIN summary) \ (DOMAIN d[1]) : out[k] = summary[k]

\* C26 as stated: enrich_list_response merges by position: item i comes out
\* merged with the payload of the i-th detail fetch, or as its summary when the
\* i-th fetch gave none, and the failed items are exactly those whose own
\* fetch gave none; also when two items have the same detail endpoint.
C26_MergedPositionally ==
    (op.name = "enrich" /\ op.phase = "done" /\ op.outcome.kind = "return")
        => LET warnings == IF "_warnings" \in DOMAIN op.list_response
                           THEN op.list_response["_warnings"] ELSE <<>>
           IN  /\ \A i \in 1..Len(tasks) :
                     LET d == DetailData(tasks[i].outcome.value)
                         summary == op.input[ResultKey][i]
                     IN  op.list_response[ResultKey][i]
                            = IF IsNone(d) THEN summary ELSE DictMerge(summary, d[1])
               /\ Len(warnings) = Cardinality(FailedItems)

\* C12: enrich_list_response keeps the list under result_key as long as it was
\* and position i holds an item made from the original item i: every field
\* name of the original is still there, and every field no detail payload
\* carries (the item's id among them) keeps its value.
C12_OrderAndLengthKept ==
    (op.name = "enrich" /\ op.phase = "done")
        => LET before == Items(op.input)
               after == Items(op.list_response)
           IN  /\ Len(after) = Len(before)
               /\ \A i \in 1..Len(before) :
                     /\ (DOMAIN before[i]) \subseteq (DOMAIN after[i])
                     /\ after[i].id = before[i].id
                     /\ after[i].chamber = before[i].chamber

\* two items with max_concurrent = 1: the first was merged, the second, for
\* which nothing was fetched, is still in second place
C12_Witness ==
    /\ op.name = "enrich"
    /\ op.phase = "done"
    /\ op.outcome.kind = "return"
    /\ Len(Items(op.input)) = 2
    /\ op.max_concurrent = 1
    /\ op.list_response[ResultKey][1].title = "amended"
    /\ op.list_response[ResultKey][2] = op.input[ResultKey][2]

\* the _warnings of a list response (none without the key)
Warnings(list_response) ==
    IF "_warnings" \in DOMAIN list_response THEN list_response["_warnings"] ELSE <<>>

\* enrich_list_response has returned
EnrichReturned == op.name = "enrich" /\ op.phase = "done" /\ op.outcome.kind = "return"

C35_EmptyReturnsInput ==
    (op.name = "enrich" /\ Items(op.input) = <<>>)
        => /\ op.phase = "done"
           /\ op.outcome = Returned(op.input)
           /\ op.list_response = op.input
           /\ "_warnings" \notin DOMAIN op.list_response
           /\ (ResultKey \in DOMAIN op.list_response) <=> (ResultKey \in DOMAIN op.input)
           /\ tasks = <<>>
           /\ gather = NoOutcome
           /\ call.requests = <<>>

\* a list response without result_key came back
C35_Witness ==
    /\ op.name = "enrich"
    /\ op.phase = "done"
    /\ ResultKey \notin DOMAIN op.input
    /\ op.outcome = Returned(op.input)

\* the payload of a 200 detail body is a mapping or a non-empty list that
\* starts with a mapping
Usable(body) ==
    /\ DetailKey \in DOMAIN body
    /\ \/ body[DetailKey].type = "dict"
       \/ /\ body[DetailKey].type = "list"
          /\ body[DetailKey].val # <<>>
          /\ body[DetailKey].val[1].type = "dict"

\* the mapping that is merged from a usable body
Payload(body) ==
    IF body[DetailKey].type = "dict" THEN body[DetailKey].val
    ELSE body[DetailKey].val[1].val

\* the get call of task i returned a body
Fetched(i) == tasks[i].call.pc = "done" /\ tasks[i].call.outcome.kind = "return"

\* item i came back as its summary, with a warning for its endpoint
UnmergedAndWarned(i) ==
    /\ Items(op.list_response)[i] = Items(op.input)[i]
    /\ \E w \in 1..Len(Warnings(op.list_response)) :
          Warnings(op.list_response)[w] = Warning(op.endpoints[i])

\* item i came back merged with the payload of its own detail response
MergedWithOwn(i) ==
    Items(op.list_response)[i]
       = DictMerge(Items(op.input)[i], Payload(tasks[i].call.outcome.value))

\* C36 as stated: an item whose detail response is a mapping under detail_key,
\* or a non-empty list starting with a mapping, is merged with that mapping;
\* an item whose response lacks detail_key or holds anything else there is
\* left unmerged with a warning; and the call does not raise over a payload.
C36_EnrichedOnlyFromMapping ==
    (op.name = "enrich" /\ op.phase = "done")
        => /\ (\A i \in 1..Len(tasks) : Fetched(i)) => op.outcome.kind = "return"
           /\ op.outcome.kind = "return"
                 => \A i \in 1..Len(tasks) :
                       Fetched(i)
                          => IF Usable(tasks[i].call.outcome.value)
                             THEN MergedWithOwn(i)
                             ELSE UnmergedAndWarned(i)

\* C37 as stated: every detail endpoint is handed to get once, a request is
\* repeated only after a 429, and when the call returns a fetched item with a
\* usable payload is merged, a softly failed one is unmerged and warned about;
\* a hard failure makes the call raise.
C37_FetchedOnceThenTerminal ==
    op.name = "enrich"
        => /\ \A i \in 1..Len(tasks) :
                 LET c == tasks[i].call
                 IN  /\ Len(c.requests) <= Len(c.responses) + 1
                     /\ \A r \in 2..Len(c.requests) :
                           /\ c.responses[r - 1].kind = "response"
                           /\ c.responses[r - 1].status_code = 429
                     /\ (c.pc = "done" /\ c.requests # <<>>)
                           => Len(c.requests) = Len(c.responses)
           /\ op.phase = "done"
                 => \A i \in 1..Len(op.at_resume) :
                       /\ GetRaised(op.at_resume, i, HardErrors) => op.outcome.kind = "raise"
                       /\ (op.outcome.kind = "return" /\ GetRaised(tasks, i, SoftErrors))
                             => UnmergedAndWarned(i)
                       /\ (op.outcome.kind = "return" /\ Fetched(i)
                              /\ Usable(tasks[i].call.outcome.value))
                             => MergedWithOwn(i)

\* C38: the list response is the one passed in until enrich_list_response
\* returns, which is after every fetch of the batch has ended; when the call
\* raises it is left exactly as it was passed in.
C38_WrittenOnlyAfterBatch ==
    op.name = "enrich"
        => /\ (op.phase # "done" \/ op.outcome.kind = "raise")
                 => op.list_response = op.input
           /\ op.list_response # op.input
                 => /\ op.outcome.kind = "return"
                    /\ \A i \in 1..Len(op.at_resume) : op.at_resume[i].call.pc = "done"

\* the call raised the AuthenticationError of the second fetch after the first
\* fetch had brought a payload: the list response is untouched
C38_Witness ==
    /\ op.name = "enrich" /\ op.phase = "done"
    /\ op.outcome.kind = "raise" /\ op.outcome.exc = "AuthenticationError"
    /\ Len(tasks) = 2
    /\ Fetched(1) /\ Usable(tasks[1].call.outcome.value)
    /\ op.list_response = op.input

----
\* Properties of get_all.

\* the page answers as an upstream does that holds a collection of total items:
\* it reports total and holds the items at [offset, offset + limit)
PageConsistent(pg, total) ==
    /\ pg.outcome.kind = "return"
    /\ LET body == pg.outcome.value
           offset == pg.params["offset"]
           limit == pg.params["limit"]
       IN  /\ "pagination" \in DOMAIN body
           /\ "count" \in DOMAIN body["pagination"]
           /\ body["pagination"]["count"] = total
           /\ Len(body["bills"].val) = IF offset >= total THEN 0 ELSE Min(limit, total - offset)

\* get_all has returned and every page it fetched was consistent with total
ReturnedFrom(total) ==
    /\ op.name = "get_all" /\ op.phase = "done" /\ op.outcome.kind = "return"
    /\ \A i \in 1..Len(op.pages) : PageConsistent(op.pages[i], total)

\* C13 as stated: against an upstream that serves a collection of total items
\* consistently, get_all returns min(max_results, total) items when max_results
\* is given and total items otherwise, and count is the length of the list.
C13_ReturnsMinOfCapAndTotal ==
    \A total \in 0..MaxTotal :
        ReturnedFrom(total)
            => LET r == op.outcome.value
               IN  /\ Len(r.results) = IF IsNone(op.max_results) THEN total
                                       ELSE Min(op.max_results[1], total)
                   /\ r.count = Len(r.results)

\* C14: with 1 <= max_results <= max_limit and a first page of at least
\* max_results items, get_all fetches that one page only and returns exactly
\* its first max_results items.
C14_OnePageWhenCapFits ==
    (/\ op.name = "get_all"
     /\ ~IsNone(op.max_results)
     /\ op.max_results[1] >= 1 /\ op.max_results[1] <= cfg.max_limit
     /\ Len(op.pages) >= 1
     /\ op.pages[1].outcome.kind = "return"
     /\ Len(op.pages[1].outcome.value["bills"].val) >= op.max_results[1])
        => /\ op.phase = "done" /\ op.outcome.kind = "return"
           /\ Len(op.pages) = 1
           /\ op.outcome.value.results
                 = SubSeq(op.pages[1].outcome.value["bills"].val, 1, op.max_results[1])
           /\ op.outcome.value.count = op.max_results[1]

\* one page was fetched that carries more items than max_results
C14_Witness ==
    /\ op.name = "get_all" /\ op.phase = "done" /\ op.outcome.kind = "return"
    /\ op.max_results = Some(2)
    /\ Len(op.pages) = 1
    /\ Len(op.pages[1].outcome.value["bills"].val) = 3
    /\ "pagination" \in DOMAIN op.pages[1].outcome.value
    /\ op.pages[1].outcome.value["pagination"]["count"] = 4
    /\ Len(op.outcome.value.results) = 2

\* the batch size of the operation, from its max_results and the configuration
ExpectedBatch ==
    IF IsNone(op.max_results) \/ op.max_results[1] = 0 THEN cfg.max_limit
    ELSE IF op.max_results[1] < cfg.max_limit THEN op.max_results[1] ELSE cfg.max_limit

\* params are the query parameters of page k of the operation: limit is the
\* batch size, offset is (k - 1) batches, the caller's params are among them
IsPageRequest(params, k) ==
    /\ params["limit"] = ExpectedBatch
    /\ params["offset"] = (k - 1) * ExpectedBatch
    /\ ~IsNone(op.given)
          => \A key \in DOMAIN op.given[1] : params[key] = op.given[1][key]

\* C30: every page request of a get_all call, first attempt or retry, has the
\* batch size b = min(max_results or max_limit, max_limit) as its limit and the
\* caller's params; page k is requested at offset (k - 1) * b, so the offsets
\* are 0, b, 2b, ... with none skipped or requested by two pages.
C30_PageRequests ==
    (op.name = "get_all" /\ client # "none")
        => /\ op.batch_size = ExpectedBatch
           /\ \A k \in 1..Len(op.pages) : IsPageRequest(op.pages[k].params, k)
           /\ LET k == IF op.phase = "done" THEN Len(op.pages) ELSE Len(op.pages) + 1
              IN  /\ call.requests # <<>>
                  /\ \A i \in 1..Len(call.requests) :
                        /\ call.requests[i].endpoint = "/bill"
                        /\ IsPageRequest(call.requests[i].params, k)

\* the retry of the second page's request, with the caller's sort parameter
C30_Witness ==
    /\ op.name = "get_all" /\ op.phase = "running"
    /\ Len(op.pages) = 1
    /\ op.max_results = Some(MaxLimit + 1)
    /\ op.given = Some([sort |-> "updateDate"])
    /\ call.pc = "inflight"
    /\ Len(call.requests) = 2
    /\ call.requests[2].params["offset"] = MaxLimit
    /\ call.requests[2].params["sort"] = "updateDate"

\* the items of the k-th page get_all fetched, and the total that page reported
\* (0 without pagination metadata)
PageItems(k) == ExtractResults(op.pages[k].outcome.value)

PageTotal(k) ==
    LET body == op.pages[k].outcome.value
    IN  IF "pagination" \in DOMAIN body /\ "count" \in DOMAIN body["pagination"]
        THEN body["pagination"]["count"] ELSE 0

RECURSIVE Accumulated(_)
\* the items of the first k pages, in request order
Accumulated(k) == IF k = 0 THEN <<>> ELSE Accumulated(k - 1) \o PageItems(k)

\* the pages whose get call returned
ReturnedPages == {k \in 1..Len(op.pages) : op.pages[k].outcome.kind = "return"}

\* one of the three stop conditions holds for the k-th page
StopsAt(k) ==
    \/ ~IsNone(op.max_results) /\ Len(Accumulated(k)) >= op.max_results[1]
    \/ (k - 1) * op.batch_size + op.batch_size >= PageTotal(k)
    \/ PageItems(k) = <<>>

\* the pages requested so far: the finished ones and the one being fetched
PagesRequested == Len(op.pages) + (IF op.phase = "running" THEN 1 ELSE 0)

CeilDiv(a, b) == (a + b - 1) \div b

\* the largest total any fetched page reported
LargestTotal ==
    LET totals == {PageTotal(k) : k \in ReturnedPages} \cup {0}
    IN  CHOOSE t \in totals : \A u \in totals : u <= t

\* C31 as stated: get_all fetches nothing after the first page for which the
\* accumulator has reached max_results, or offset + batch_size >= the total the
\* page reports (0 without pagination metadata), or the page has no items; and
\* it requests at least one and at most ceil(total / batch_size) pages.
C31_StopsAfterFirstStoppingPage ==
    op.name = "get_all"
        => /\ \A k \in ReturnedPages :
                 StopsAt(k) => (k = Len(op.pages) /\ op.phase = "done")
           /\ PagesRequested >= 1
           /\ op.batch_size >= 1
                 => PagesRequested <= IF LargestTotal = 0 THEN 1
                                      ELSE CeilDiv(LargestTotal, op.batch_size)

\* C32 as stated: when max_results is supplied (any integer >= 0) the list
\* get_all returns has at most max_results items and count is at most
\* max_results, whatever the upstream answers.
C32_MaxResultsIsHardCap ==
    (/\ op.name = "get_all" /\ op.phase = "done" /\ op.outcome.kind = "return"
     /\ ~IsNone(op.max_results))
        => /\ Len(op.outcome.value.results) <= op.max_results[1]
           /\ op.outcome.value.count <= op.max_results[1]

\* C33 as stated: get_all returns the concatenation, in request order, of the
\* item lists of the pages it fetched, cut to max_results when max_results is
\* given, and count is the length of the returned list.
C33_ConcatenationOfPages ==
    (op.name = "get_all" /\ op.phase = "done" /\ op.outcome.kind = "return")
        => LET all == Accumulated(Len(op.pages))
               r == op.outcome.value
           IN  /\ r.results = IF IsNone(op.max_results) THEN all
                              ELSE SubSeq(all, 1, Min(op.max_results[1], Len(all)))
               /\ r.count = Len(r.results)

\* C39: when the get call of a page raises, get_all raises that same error, the
\* failed page is the last one requested, and nothing accumulated is returned.
C39_PageFailureEndsGetAll ==
    op.name = "get_all"
        => \A k \in 1..Len(op.pages) :
              op.pages[k].outcome.kind = "raise"
                  => /\ k = Len(op.pages)
                     /\ op.phase = "done"
                     /\ op.outcome = op.pages[k].outcome
                     /\ call.pc = "done" /\ call.outcome = op.pages[k].outcome
                     /\ Len(call.requests) = op.pages[k].requests

\* the second page fails after a first page of items was accumulated
C39_Witness ==
    /\ op.name = "get_all" /\ op.phase = "done"
    /\ Len(op.pages) = 2
    /\ op.pages[1].outcome.kind = "return" /\ PageItems(1) # <<>>
    /\ op.pages[2].outcome.kind = "raise"
    /\ op.pages[2].outcome.exc = "RateLimitError"
    /\ op.outcome.kind = "raise"

----
\* Properties of get.

\* the i-th response of the caller's get call is a 429
Is429(i) == call.responses[i].kind = "response" /\ call.responses[i].status_code = 429

\* the last response of the caller's get call
LastResponse == call.responses[Len(call.responses)]

\* C1: for every k <= max_retries, when the first k attempts of a get call are
\* answered 429 the call goes on to attempt k+1 (after k sleeps), and when that
\* attempt is answered 200 the call returns the decoded body of that response,
\* having issued exactly k+1 requests and slept exactly k times.
C1_SucceedsAfterK429 ==
    \A k \in 0..cfg.max_retries :
        /\ (Len(call.responses) = k /\ k > 0 /\ \A i \in 1..k : Is429(i))
              => /\ call.pc \in {"sleeping", "inflight"}
                 /\ Len(call.sleeps) = k
        /\ (/\ Len(call.responses) >= k + 1
            /\ \A i \in 1..k : Is429(i)
            /\ call.responses[k + 1].kind = "response"
            /\ call.responses[k + 1].status_code = 200)
              => /\ call.pc = "done"
                 /\ call.outcome.kind = "return"
                 /\ \A key \in DOMAIN call.responses[k + 1].body :
                        /\ key \in DOMAIN call.outcome.value
                        /\ call.outcome.value[key] = call.responses[k + 1].body[key]
                 /\ (DOMAIN call.outcome.value) \subseteq
                        (DOMAIN call.responses[k + 1].body) \cup {"_pagination"}
                 /\ Len(call.requests) = k + 1
                 /\ Len(call.sleeps) = k

\* a get call that returned on its last permitted attempt, after max_retries 429s
C1_Witness ==
    /\ cfg.max_retries >= 2
    /\ call.pc = "done"
    /\ call.outcome.kind = "return"
    /\ Len(call.responses) = cfg.max_retries + 1
    /\ "bills" \in DOMAIN call.outcome.value

\* C2: a get call answered 429 on every attempt fails with RateLimitError after
\* exactly max_retries+1 requests and max_retries sleeps (one request and no
\* sleep when max_retries = 0); no get call issues more than max_retries+1
\* requests, and RateLimitError is raised in no other case.
C2_RateLimitAfterAllRetries ==
    /\ Len(call.requests) <= cfg.max_retries + 1
    /\ (Len(call.responses) = cfg.max_retries + 1
            /\ \A i \in 1..Len(call.responses) : Is429(i))
          => /\ call.pc = "done"
             /\ call.outcome.kind = "raise"
             /\ call.outcome.exc = "RateLimitError"
             /\ Len(call.requests) = cfg.max_retries + 1
             /\ Len(call.sleeps) = cfg.max_retries
    /\ (call.outcome.exc = "RateLimitError")
          => /\ Len(call.responses) = cfg.max_retries + 1
             /\ \A i \in 1..Len(call.responses) : Is429(i)

\* a get call that exhausted its retries
C2_Witness ==
    /\ cfg.max_retries >= 1
    /\ call.pc = "done"
    /\ call.outcome.exc = "RateLimitError"
    /\ Len(call.sleeps) = cfg.max_retries

\* what Python's float() gives for the Retry-After values of the model, in
\* milliseconds; <<>> when float() raises ValueError
FloatOracle(h) ==
    CASE h = <<"2">> -> Some(2000)
      [] h = <<"0", ".", "5">> -> Some(500)
      [] h = <<"-", "1">> -> Some(0 - 1000)
      [] OTHER -> None

\* C3: the delay slept before retry i (attempts counted from 0) is the
\* Retry-After value of the i-th 429 response when the header is present and
\* parses as a number, and retry_base_delay * 2^i otherwise.
C3_RetryDelay ==
    \A n \in 1..Len(call.sleeps) :
        LET ra == call.responses[n].retry_after
            i == n - 1
        IN  /\ Is429(n)
            /\ call.sleeps[n] =
                  IF ~IsNone(ra) /\ ~IsNone(FloatOracle(ra[1]))
                  THEN FloatOracle(ra[1])[1]
                  ELSE cfg.retry_base_delay * Pow2(i)

\* a call that slept three times: after a header that parses, after one that
\* does not, and after a 429 without the header
C3_Witness ==
    /\ Len(call.sleeps) = 3
    /\ call.responses[1].retry_after = Some(<<"0", ".", "5">>)
    /\ call.responses[2].retry_after = Some(<<"s", "o", "o", "n">>)
    /\ call.responses[3].retry_after = None

\* C4: the response that ends the retry loop decides the outcome: 200 returns the
\* body, 404 raises NotFoundError, 401 and 403 raise AuthenticationError, every
\* other status raises CongressAPIError with that status; only a 200 returns.
C4_StatusMapping ==
    /\ (call.pc = "done" /\ call.responses # <<>> /\ LastResponse.kind = "response"
            /\ LastResponse.status_code # 429)
          => LET s == LastResponse.status_code
                 o == call.outcome
             IN  /\ (s = 200) => (o.kind = "return")
                 /\ (s = 404) => (o.kind = "raise" /\ o.exc = "NotFoundError")
                 /\ (s \in {401, 403}) => (o.kind = "raise" /\ o.exc = "AuthenticationError")
                 /\ (s \notin {200, 401, 403, 404})
                        => (o.kind = "raise" /\ o.exc = "CongressAPIError" /\ o.status_code = s)
    /\ (call.outcome.kind = "return")
          => (LastResponse.kind = "response" /\ LastResponse.status_code = 200)

\* a 201 answered after a 429: CongressAPIError carrying 201
C4_Witness ==
    /\ call.pc = "done"
    /\ Len(call.responses) = 2
    /\ LastResponse.status_code = 201
    /\ call.outcome.exc = "CongressAPIError"

\* C5: a response whose status is not 429 is the last of its call: the call is
\* over with it, no request follows it and no sleep follows it.
C5_Non429NeverRetried ==
    \A n \in 1..Len(call.responses) :
        (call.responses[n].kind = "response" /\ call.responses[n].status_code # 429)
            => /\ n = Len(call.responses)
               /\ call.pc = "done"
               /\ Len(call.requests) = n
               /\ Len(call.sleeps) = n - 1

\* a 500 that followed two 429s
C5_Witness ==
    /\ call.pc = "done"
    /\ Len(call.responses) = 3
    /\ LastResponse.status_code = 500
    /\ call.outcome.exc = "CongressAPIError"

\* the limit a get call with this limit argument sends
ClampedLimit(limit) == IF limit > cfg.max_limit THEN cfg.max_limit ELSE limit

\* C15: every request of a get call that was passed a limit carries the limit
\* parameter min(limit, max_limit): max_limit when limit > max_limit, limit
\* itself otherwise; on the first attempt and on every retry.
C15_LimitClamped ==
    (op.name = "get" /\ ~IsNone(call.limit))
        => \A i \in 1..Len(call.requests) :
              /\ "limit" \in DOMAIN call.requests[i].params
              /\ call.requests[i].params["limit"] = ClampedLimit(call.limit[1])

\* a limit above max_limit on a call that was retried
C15_Witness ==
    /\ op.name = "get"
    /\ call.limit = Some(cfg.max_limit + 1)
    /\ Len(call.requests) >= 2
    /\ call.requests[2].params["limit"] = cfg.max_limit

\* the limit the pagination block is computed with
EffectiveLimit == IF IsNone(call.limit) THEN cfg.default_limit ELSE ClampedLimit(call.limit[1])

\* C17: a get call that returns a 200 body with a pagination count returns the
\* body plus _pagination, where total_count is the reported count, has_more is
\* offset + effective_limit < total_count and next_offset is
\* offset + effective_limit when has_more and None otherwise; a body without
\* pagination metadata is returned as it is.
C17_PaginationBlock ==
    (op.name = "get" /\ op.phase = "done" /\ op.outcome.kind = "return")
        => LET body == LastResponse.body
               r == op.outcome.value
               has_count == /\ "pagination" \in DOMAIN body
                            /\ "count" \in DOMAIN body["pagination"]
               no_metadata == \/ "pagination" \notin DOMAIN body
                              \/ body["pagination"] = EmptyDict
               next == call.offset + EffectiveLimit
           IN  /\ has_count
                    => /\ DOMAIN r = (DOMAIN body) \cup {"_pagination"}
                       /\ \A k \in DOMAIN body : r[k] = body[k]
                       /\ r["_pagination"].total_count = body["pagination"]["count"]
                       /\ r["_pagination"].has_more = (next < body["pagination"]["count"])
                       /\ r["_pagination"].next_offset
                             = IF next < body["pagination"]["count"] THEN Some(next) ELSE None
               /\ no_metadata => r = body

\* the page that ends exactly at the total count: no more pages
C17_Witness ==
    /\ op.name = "get" /\ op.phase = "done" /\ op.outcome.kind = "return"
    /\ call.offset + EffectiveLimit = 3
    /\ "_pagination" \in DOMAIN op.outcome.value
    /\ op.outcome.value["_pagination"].total_count = 3
    /\ op.outcome.value["_pagination"].has_more = FALSE
    /\ op.outcome.value["_pagination"].next_offset = None

\* C18: a get call on a client that was never acquired raises RuntimeError and
\* sends no request.
C18_UnacquiredClientRaises ==
    (op.name = "get" /\ client = "none")
        => /\ op.phase = "done"
           /\ op.outcome = Raised("RuntimeError", 0)
           /\ call.pc = "done"
           /\ call.requests = <<>>

C18_Witness ==
    /\ op.name = "get" /\ client = "none" /\ op.scope = "outside"
    /\ op.outcome.exc = "RuntimeError"
    /\ call.requests = <<>>

\* what get returns for a 200 body, as a function of the body, the limit and
\* offset arguments and the configuration alone
ResultOf(body, limit, offset) ==
    LET step == IF IsNone(limit) THEN cfg.default_limit ELSE ClampedLimit(limit[1])
        has_block == "pagination" \in DOMAIN body /\ body["pagination"] # EmptyDict
        total == IF "count" \in DOMAIN body["pagination"] THEN body["pagination"]["count"] ELSE 0
        block == [total_count |-> total,
                  has_more |-> offset + step < total,
                  next_offset |-> IF offset + step < total THEN Some(offset + step) ELSE None]
    IN  IF has_block
        THEN [k \in (DOMAIN body) \cup {"_pagination"} |->
                 IF k = "_pagination" THEN block ELSE body[k]]
        ELSE body

\* C24: what a get call returns is a function of the 200 body it received, its
\* limit and offset arguments and the configuration: two calls with the same
\* arguments that receive the same body return the same value, whatever params
\* were passed along and however many 429 responses and backoff sleeps came
\* before the 200.
C24_ResultIsFunctionOfBodyAndArguments ==
    (op.name = "get" /\ op.phase = "done" /\ op.outcome.kind = "return")
        => /\ LastResponse.kind = "response" /\ LastResponse.status_code = 200
           /\ op.outcome.value = ResultOf(LastResponse.body, call.limit, call.offset)

\* a call that returned a pagination block after two retries
C24_Witness ==
    /\ op.name = "get" /\ op.phase = "done" /\ op.outcome.kind = "return"
    /\ Len(call.sleeps) = 2
    /\ call.attempt = 2
    /\ "_pagination" \in DOMAIN op.outcome.value
    /\ op.outcome.value["_pagination"].has_more

----
\* Properties of the client as a whole.

\* the get calls there are: the caller's own and those of the detail tasks
TaskCalls == {tasks[i].call : i \in 1..Len(tasks)}
AllCalls == {call} \cup TaskCalls

\* C16 as stated: every request sent upstream carries api_key, format=json,
\* limit and offset.
C16_AllFourParameters ==
    \A c \in AllCalls :
        \A i \in 1..Len(c.requests) :
            /\ {"api_key", "format", "limit", "offset"} \subseteq DOMAIN c.requests[i].params
            /\ c.requests[i].params["format"] = "json"

\* C16 (amended): every request sent upstream, first attempt or retry, carries
\* api_key, format=json and the offset of its get call; it carries limit exactly
\* when its get call was passed a limit, which get_all always does and the
\* detail fetches of fetch_details_concurrent and enrich_list_response never do.
C16_ParametersOfEveryRequest ==
    /\ \A c \in AllCalls :
          \A i \in 1..Len(c.requests) :
              LET params == c.requests[i].params
              IN  /\ {"api_key", "format", "offset"} \subseteq DOMAIN params
                  /\ params["api_key"] = "KEY"
                  /\ params["format"] = "json"
                  /\ params["offset"] = c.offset
                  /\ ("limit" \in DOMAIN params) <=> ~IsNone(c.limit)
    /\ \A c \in TaskCalls : IsNone(c.limit)
    /\ (op.name = "get_all" /\ call.requests # <<>>) => ~IsNone(call.limit)

\* a detail fetch that was retried: both requests without limit
C16_Witness ==
    /\ op.name = "enrich"
    /\ Len(tasks) >= 1
    /\ Len(tasks[1].call.requests) = 2
    /\ "limit" \notin DOMAIN tasks[1].call.requests[2].params
    /\ "offset" \in DOMAIN tasks[1].call.requests[2].params

\* C27 as stated: once the async with block is left and the connection is
\* closed, no request of a get call or detail fetch is in flight on it and none
\* is attempted on it.
C27_NoUseAfterRelease ==
    (client = "closed")
        => \A c \in AllCalls :
              /\ c.pc # "inflight"
              /\ c.pc # "sleeping"
              /\ ~(c.pc = "done" /\ c.attempt > 0 /\ Len(c.requests) = c.attempt
                    /\ c.outcome = Raised("RuntimeError", 0))

\* C29: the attempts of one get call are sequential: at most one of its
\* requests is unanswered, and only while the call awaits it; every request
\* after the first follows a 429 response to the one before and a finished
\* backoff sleep.  Only the get calls of fetch_details_concurrent run side by
\* side, at most max_concurrent of them.
C29_AttemptsSequential ==
    /\ \A c \in AllCalls :
          LET sent == Len(c.requests)
              answered == Len(c.responses)
          IN  /\ sent - answered = IF c.pc = "inflight" THEN 1 ELSE 0
              /\ (c.pc = "inflight") => Len(c.sleeps) = sent - 1
              /\ (c.pc = "sleeping") => Len(c.sleeps) = sent
              /\ Len(c.sleeps) <= sent
              /\ \A i \in 2..sent :
                    /\ c.responses[i - 1].kind = "response"
                    /\ c.responses[i - 1].status_code = 429
                    /\ Len(c.sleeps) >= i - 1
    /\ (tasks # <<>>) => (call = NoCall /\ Len(tasks) <= op.max_concurrent)

\* two detail fetches in flight at once, the second on its retry
C29_Witness ==
    /\ Len(tasks) = 2
    /\ tasks[1].call.pc = "inflight" /\ Len(tasks[1].call.requests) = 1
    /\ tasks[2].call.pc = "inflight" /\ Len(tasks[2].call.requests) = 2
    /\ Len(tasks[2].call.sleeps) = 1

\* C19: once the async with block is left, by a return or by any exception,
\* the connection opened on entering it is closed; no connection is open
\* outside the block.
C19_ClosedOnEveryExit ==
    /\ op.scope = "left" => client = "closed"
    /\ client = "open" => op.scope = "inside"

\* the block was left by a NotFoundError
C19_Witness ==
    /\ op.scope = "left"
    /\ op.outcome.kind = "raise" /\ op.outcome.exc = "NotFoundError"
    /\ client = "closed"

\* the query parameters get adds
AddedKeys == {"api_key", "format", "limit", "offset"}

----
\* Properties of EnumValidationMiddleware.

\* C25: on_call_tool awaits the wrapped call once; what the call returns is
\* returned unchanged; a ValidationError of the call, about an enum parameter
\* or not, leaves as a ToolError; any other exception of the call leaves
\* unchanged.
C25_OutcomeMapping ==
    (op.name = "on_call_tool" /\ op.phase = "done")
        => LET next == op.input.next
           IN  /\ op.awaited = 1
               /\ (next.kind = "return") => op.outcome = next
               /\ (next.kind = "raise" /\ next.exc = "ValidationError")
                     => /\ op.outcome.kind = "raise"
                        /\ op.outcome.exc = "ToolError"
               /\ (next.kind = "raise" /\ next.exc # "ValidationError")
                     => op.outcome = next

\* a ValidationError about a parameter that is no enum left as a ToolError
C25_Witness ==
    /\ op.name = "on_call_tool" /\ op.phase = "done"
    /\ op.input.next.exc = "ValidationError"
    /\ Len(op.input.next.value.errors) = 1
    /\ op.input.next.value.errors[1].loc = <<"limit">>
    /\ op.outcome.exc = "ToolError"
    /\ op.outcome.value.text = "str(exc)"

----
\* Properties of _extract_results.

\* the positions of result_keys whose key is in the response
PresentKeys(response) == {i \in 1..Len(ResultKeys) : ResultKeys[i] \in DOMAIN response}

\* those whose value is a list
ListKeys(response) == {i \in PresentKeys(response) : response[ResultKeys[i]].type = "list"}

First(positions) == CHOOSE i \in positions : \A j \in positions : i <= j

\* C20 as stated: the first key of result_keys present in the response decides:
\* its value is returned when it is a list, an empty list otherwise; an empty
\* list when no key is present.
C20_FirstPresentKeyDecides ==
    (op.name = "extract" /\ op.phase = "done")
        => LET present == PresentKeys(op.input)
               v == op.input[ResultKeys[First(present)]]
           IN  op.outcome.value = IF present = {} THEN <<>>
                                  ELSE IF v.type = "list" THEN v.val ELSE <<>>

\* C20 (amended): the value of the first key of result_keys that is present
\* with a list value is returned; an empty list when there is no such key.
C20_FirstListKeyDecides ==
    (op.name = "extract" /\ op.phase = "done")
        => LET lists == ListKeys(op.input)
           IN  op.outcome.value = IF lists = {} THEN <<>>
                                  ELSE op.input[ResultKeys[First(lists)]].val

\* the first present key holds a string, a later one a list: the list is returned
C20_Witness ==
    /\ op.name = "extract" /\ op.phase = "done"
    /\ "bills" \in DOMAIN op.input /\ op.input["bills"].type = "str"
    /\ "members" \notin DOMAIN op.input
    /\ "results" \in DOMAIN op.input /\ op.input["results"] = JList(<<[key |-> "results"]>>)
    /\ op.outcome.value = <<[key |-> "results"]>>

====
